---- MODULE Spec2Model ----
(***************************************************************************)
(* State-machine model of the DoctorPortalV2 component (src/src/App.jsx):  *)
(* the seeded patient collection, the vitals random walk, the severity     *)
(* sort, the auto-update timer, the notes/ward edits and the metadata      *)
(* record kept in localStorage.                                            *)
(*                                                                         *)
(* Numbers.  Math.random() is modelled as a value m/Q with m in 0..Q-1,    *)
(* taken from one of a few deterministic streams.  Oxygen saturation is    *)
(* not rounded by the code, so it is kept as an integer number of 1/Q      *)
(* percent (95% is 95*Q); heart rate and blood pressure are rounded by the *)
(* code and are plain integers.                                            *)
(***************************************************************************)
EXTENDS Integers, Sequences, FiniteSets, TLC

VARIABLES
    patients,   \* useState patients: the ordered patient collection
    storage,    \* localStorage[STORAGE_KEY]: the stored text
    autoPlay,   \* useState autoPlay
    updateRef,  \* updateRef.current: interval handle, 0 for null
    timers,     \* interval handles that are still scheduled in the page
    timerSeq,   \* last handle setInterval returned in this page
    phase,      \* "init": first render done, effects pending; "live": mounted;
                \* "reloading", "resetting": the page is being replaced
    clock,      \* number of ticks so far (labels the readings' time)
    stepsLeft,  \* remaining periodic ticks and user events of the run
    lastOp,     \* the last operation and its arguments
    lastDelta,  \* the oxygen delta the last tick drew, per patient id
    query,      \* useState query: the search text, a sequence of characters
    filter,     \* useState filter: "all" or a severity name
    selected    \* useState selected: the patient object of the modal, or Null

\* the state of the list view and of the modal
view == <<query, filter, selected>>

vars == <<patients, storage, autoPlay, updateRef, timers, timerSeq, phase,
          clock, stepsLeft, lastOp, lastDelta, query, filter, selected>>

-----------------------------------------------------------------------------
(* Bounds of the model *)

HalfLevels == 10
MaxWarmup == 20
MaxSteps == 3
MaxPortalSteps == 2

(* Program constants *)

NumPatients == 10
SeedLen == 8
HistoryCap == 16
StableMin == 95
WarningMin == 90
SeriousMin == 85
SeedSpo2Min == 80
Spo2Min == 60
Spo2Max == 100
HrMin == 45
HrMax == 140
BpMin == 80
BpMax == 200
FirstId == 1000
DefaultHr == 70
DefaultBp == 120

\* resolution of Math.random(): values m/Q, m in 0..Q-1
Q == 2 * HalfLevels

-----------------------------------------------------------------------------
(* Arithmetic helpers *)

Max(a, b) == IF a >= b THEN a ELSE b
Min(a, b) == IF a <= b THEN a ELSE b

\* Math.round(num/den) for den > 0: floor(num/den + 1/2), halves go up
Round(num, den) == (2 * num + den) \div (2 * den)

\* the n-th value (numerator m of m/Q) of random stream s
Rand(s, n) == (s.start + s.step * n) % Q

\* the streams a seeding draws from: every draw 1/2, or draws that vary
SeedStreams == { [start |-> HalfLevels, step |-> 0], [start |-> 0, step |-> 1] }

\* the streams a tick draws from: every draw 0, every draw (Q-1)/Q, or draws that
\* vary from one patient to the next
TickStreams == { [start |-> 0, step |-> 0], [start |-> Q - 1, step |-> 0],
                 [start |-> 0, step |-> 1],
                 [start |-> (3 * HalfLevels) \div 2, step |-> HalfLevels \div 2] }


-----------------------------------------------------------------------------
(* severityScore: severity by SpO2, higher = worse; spo2 in 1/Q percent *)

\* faulty variant: the level boundaries taken as exclusive
severityScoreLoose(spo2) ==
    IF spo2 > StableMin * Q THEN 0
    ELSE IF spo2 > WarningMin * Q THEN 1
    ELSE IF spo2 > SeriousMin * Q THEN 2
    ELSE 3

severityScore(spo2) ==
    IF spo2 >= StableMin * Q THEN 0
    ELSE IF spo2 >= WarningMin * Q THEN 1
    ELSE IF spo2 >= SeriousMin * Q THEN 2
    ELSE 3

-----------------------------------------------------------------------------
(* makeInitialPatients *)

\* history entry idx (0-based) of seed patient i (0-based): three draws each
SeedReading(s, i, idx) ==
    LET n == (i * SeedLen + idx) * 3
        base == StableMin - (i % 4)
    IN [ time |-> idx - (SeedLen - 1),
         spo2 |-> Max(SeedSpo2Min * Q, Min(Spo2Max * Q, base * Q + (4 * Rand(s, n) - 2 * Q))),
         hr   |-> Round(65 * Q + 20 * Rand(s, n + 1), Q),
         bp   |-> 110 + Round(30 * Rand(s, n + 2), Q) ]

makeInitialPatients(s) ==
    [ k \in 1 .. NumPatients |->
        LET i == k - 1
            history == [ x \in 1 .. SeedLen |-> SeedReading(s, i, x - 1) ]
        IN [ id |-> FirstId + i,
             name |-> i + 1,
             age |-> 28 + ((i * 7) % 25),
             ward |-> "General",
             notes |-> "",
             history |-> history,
             vitals |-> history[Len(history)] ] ]

-----------------------------------------------------------------------------
(* The stored text under STORAGE_KEY.  kind "absent": getItem returns null; *)
(* "garbage": text JSON.parse rejects; "null": the JSON text null;          *)
(* "scalar": a JSON number, string, boolean or array; "object": a JSON      *)
(* object, its members in order, each value the record of its own members   *)
(* (a member that is no object has no members a patient field could take).  *)

Absent == [ kind |-> "absent", entries |-> << >> ]

NoFields == [ f \in {} |-> 0 ]

\* Object.fromEntries: a repeated key keeps its place and takes the later value
RECURSIVE FromEntries(_, _)
FromEntries(pairs, acc) ==
    IF pairs = << >> THEN acc
    ELSE LET e == Head(pairs)
             hit == { x \in 1 .. Len(acc) : acc[x].key = e.key }
         IN FromEntries(Tail(pairs),
                IF hit = {} THEN Append(acc, e)
                ELSE [ x \in 1 .. Len(acc) |-> IF x \in hit THEN e ELSE acc[x] ])

\* faulty variant: the notes are left out of the stored record
StringifyWardOnly(ps) ==
    [ kind |-> "object",
      entries |-> FromEntries([ k \in 1 .. Len(ps) |->
                     [ key |-> ps[k].id, val |-> [ ward |-> ps[k].ward ] ] ], << >>) ]

\* JSON.stringify(Object.fromEntries(patients.map(p => [p.id, {notes, ward}])))
StringifyMeta(ps) ==
    [ kind |-> "object",
      entries |-> FromEntries([ k \in 1 .. Len(ps) |->
                     [ key |-> ps[k].id,
                       val |-> [ notes |-> ps[k].notes, ward |-> ps[k].ward ] ] ], << >>) ]

\* meta[p.id] of the parsed text: the member's fields, none when undefined
MetaFor(stored, id) ==
    IF stored.kind = "object" /\ \E x \in 1 .. Len(stored.entries) : stored.entries[x].key = id
    THEN stored.entries[CHOOSE x \in 1 .. Len(stored.entries) : stored.entries[x].key = id].val
    ELSE NoFields

Get(m, f, d) == IF f \in DOMAIN m THEN m[f] ELSE d

\* { ...p, ...m }
Spread(p, m) ==
    [ id      |-> Get(m, "id", p.id),
      name    |-> Get(m, "name", p.name),
      age     |-> Get(m, "age", p.age),
      ward    |-> Get(m, "ward", p.ward),
      notes   |-> Get(m, "notes", p.notes),
      history |-> Get(m, "history", p.history),
      vitals  |-> Get(m, "vitals", p.vitals) ]

\* the useState initialiser: hydrate metadata if present; JSON.parse throws on
\* garbage and meta[p.id] throws on null, and the catch returns the seed
Hydrate(seeded, stored) ==
    IF stored.kind \in { "garbage", "null" } THEN seeded
    ELSE [ k \in 1 .. Len(seeded) |-> Spread(seeded[k], MetaFor(stored, seeded[k].id)) ]

-----------------------------------------------------------------------------
(* simulateVitalsUpdate and the sort of a tick *)

LastN(seq, n) == IF Len(seq) <= n THEN seq ELSE SubSeq(seq, Len(seq) - n + 1, Len(seq))

\* Math.round((Math.random() - 0.65) * 4), the draw being Rand(s, n)/Q
Delta(s, n) == Round(20 * Rand(s, n) - 13 * Q, 5 * Q)

\* faulty variant: oxygen saturation is not capped at 100
NewPointNoCeiling(p, s, j, now) ==
    LET n == (j - 1) * 3
    IN [ time |-> now,
         spo2 |-> Max(Spo2Min * Q, p.vitals.spo2 + Delta(s, n) * Q),
         hr   |-> Max(HrMin, Min(HrMax, Round(p.vitals.hr * Q + (6 * Rand(s, n + 1) - 3 * Q), Q))),
         bp   |-> Max(BpMin, Min(BpMax, Round(p.vitals.bp * Q + (6 * Rand(s, n + 2) - 3 * Q), Q))) ]

\* the reading the tick makes for the patient at position j (1-based): three draws
NewPoint(p, s, j, now) ==
    LET n == (j - 1) * 3
        prevHr == IF p.vitals.hr = 0 THEN DefaultHr ELSE p.vitals.hr
        prevBp == IF p.vitals.bp = 0 THEN DefaultBp ELSE p.vitals.bp
    IN [ time |-> now,
         spo2 |-> Max(Spo2Min * Q, Min(Spo2Max * Q, p.vitals.spo2 + Delta(s, n) * Q)),
         hr   |-> Max(HrMin, Min(HrMax, Round(prevHr * Q + (6 * Rand(s, n + 1) - 3 * Q), Q))),
         bp   |-> Max(BpMin, Min(BpMax, Round(prevBp * Q + (6 * Rand(s, n + 2) - 3 * Q), Q))) ]

\* faulty variant: past the cap the newest reading is dropped, not the oldest
NextHistoryDropNewest(history, newPoint) ==
    LET all == Append(history, newPoint)
    IN IF Len(all) <= HistoryCap THEN all ELSE SubSeq(all, 1, HistoryCap)

\* [...(p.history || []), newPoint].slice(-16)
NextHistory(history, newPoint) == LastN(Append(history, newPoint), HistoryCap)

\* faulty variant: the history grows but vitals keeps the old reading
simulateVitalsUpdateStale(prev, s, now) ==
    [ j \in 1 .. Len(prev) |->
        [ prev[j] EXCEPT !.history = NextHistory(prev[j].history, NewPoint(prev[j], s, j, now)) ] ]

simulateVitalsUpdate(prev, s, now) ==
    [ j \in 1 .. Len(prev) |->
        LET newPoint == NewPoint(prev[j], s, j, now)
        IN [ prev[j] EXCEPT !.vitals = newPoint,
                            !.history = NextHistory(prev[j].history, newPoint) ] ]

\* a.id.localeCompare(b.id) for identifiers PT-<digits> of equal length
localeCompare(a, b) == IF a < b THEN -1 ELSE IF a > b THEN 1 ELSE 0

\* faulty variant: severity ascending (stable first)
compareAscending(a, b) ==
    LET d == severityScore(a.vitals.spo2) - severityScore(b.vitals.spo2)
    IN IF d # 0 THEN d ELSE localeCompare(a.id, b.id)

\* the comparator of updated.sort: severity descending, then identifier
compare(a, b) ==
    LET d == severityScore(b.vitals.spo2) - severityScore(a.vitals.spo2)
    IN IF d # 0 THEN d ELSE localeCompare(a.id, b.id)

\* Array.prototype.sort is stable: x goes after every element not after it
RECURSIVE InsertSorted(_, _)
InsertSorted(sorted, x) ==
    IF sorted = << >> THEN << x >>
    ELSE IF compare(sorted[Len(sorted)], x) <= 0 THEN Append(sorted, x)
    ELSE Append(InsertSorted(SubSeq(sorted, 1, Len(sorted) - 1), x), sorted[Len(sorted)])

RECURSIVE SortFrom(_, _)
SortFrom(seq, acc) ==
    IF seq = << >> THEN acc ELSE SortFrom(Tail(seq), InsertSorted(acc, Head(seq)))

\* faulty variant: the tick does not sort
SortPatientsSkipped(seq) == seq

SortPatients(seq) == SortFrom(seq, << >>)

\* the updater both the immediate and the periodic tick pass to setPatients
TickUpdate(prev, s, now) == SortPatients(simulateVitalsUpdate(prev, s, now))

\* the oxygen delta the tick draws for each patient, by identifier
TickDeltas(prev, s) ==
    [ id \in { prev[j].id : j \in 1 .. Len(prev) } |->
        Delta(s, ((CHOOSE j \in 1 .. Len(prev) : prev[j].id = id) - 1) * 3) ]

NoDeltas == [ id \in {} |-> 0 ]

-----------------------------------------------------------------------------
(* Text.  A text the search reads is a sequence of one-character strings.  *)

UpperCase == << "A", "B", "C", "D", "E", "F", "G", "H", "I", "J", "K", "L", "M",
                "N", "O", "P", "Q", "R", "S", "T", "U", "V", "W", "X", "Y", "Z" >>
LowerCase == << "a", "b", "c", "d", "e", "f", "g", "h", "i", "j", "k", "l", "m",
                "n", "o", "p", "q", "r", "s", "t", "u", "v", "w", "x", "y", "z" >>

\* the lower-case letter of each upper-case letter
LowerOf ==
    [ c \in { UpperCase[a] : a \in 1 .. Len(UpperCase) } |->
        LowerCase[CHOOSE a \in 1 .. Len(UpperCase) : UpperCase[a] = c] ]

\* String.prototype.toLowerCase: other characters stay as they are
toLowerCase(t) ==
    [ k \in 1 .. Len(t) |-> IF t[k] \in DOMAIN LowerOf THEN LowerOf[t[k]] ELSE t[k] ]

\* String.prototype.trim: the white space at both ends is removed
RECURSIVE trim(_)
trim(t) ==
    IF t = << >> THEN t
    ELSE IF Head(t) = " " THEN trim(Tail(t))
    ELSE IF t[Len(t)] = " " THEN trim(SubSeq(t, 1, Len(t) - 1))
    ELSE t

\* String.prototype.includes
includes(t, q) ==
    \E k \in 0 .. Len(t) - Len(q) : SubSeq(t, k + 1, k + Len(q)) = q

\* the decimal digits of a natural number
RECURSIVE Digits(_)
Digits(n) ==
    LET d == << "0", "1", "2", "3", "4", "5", "6", "7", "8", "9" >>[(n % 10) + 1]
    IN IF n < 10 THEN << d >> ELSE Append(Digits(n \div 10), d)

\* the text of a patient's name, `Patient ${i + 1}`, and of its id, `PT-${1000 + i}`
NameText(name) == << "P", "a", "t", "i", "e", "n", "t", " " >> \o Digits(name)
IdText(id) == << "P", "T", "-" >> \o Digits(id)

\* the text of a ward or of a note
Chars(str) ==
    CASE str = "" -> << >>
      [] str = "General" -> << "G", "e", "n", "e", "r", "a", "l" >>
      [] str = "ICU" -> << "I", "C", "U" >>
      [] str = "n1" -> << "n", "1" >>

-----------------------------------------------------------------------------
(* filtered: the displayed collection *)

\* the severity level a filter button asks for
Filters == { "all", "stable", "warning", "serious", "critical" }
FilterLevel == [ stable |-> 0, warning |-> 1, serious |-> 2, critical |-> 3 ]

\* faulty variant: a typed search text alone decides, whatever the level
ShownAnyLevel(p, q0, f) ==
    LET q == toLowerCase(trim(q0))
    IN IF q = << >>
       THEN ~(f \in DOMAIN FilterLevel /\ severityScore(p.vitals.spo2) # FilterLevel[f])
       ELSE \/ includes(toLowerCase(NameText(p.name)), q)
            \/ includes(toLowerCase(IdText(p.id)), q)
            \/ includes(toLowerCase(Chars(p.ward)), q)
            \/ includes(toLowerCase(Chars(p.notes)), q)

\* the callback of patients.filter for search text q0 and filter f
Shown(p, q0, f) ==
    LET q == toLowerCase(trim(q0))
    IN IF f \in DOMAIN FilterLevel /\ severityScore(p.vitals.spo2) # FilterLevel[f]
       THEN FALSE
       ELSE IF q = << >> THEN TRUE
       ELSE \/ includes(toLowerCase(NameText(p.name)), q)
            \/ includes(toLowerCase(IdText(p.id)), q)
            \/ includes(toLowerCase(Chars(p.ward)), q)
            \/ includes(toLowerCase(Chars(p.notes)), q)

\* Array.prototype.filter: the elements the callback accepts, in order
RECURSIVE filtered(_, _, _)
filtered(ps, q0, f) ==
    IF ps = << >> THEN << >>
    ELSE IF Shown(Head(ps), q0, f)
         THEN << Head(ps) >> \o filtered(Tail(ps), q0, f)
         ELSE filtered(Tail(ps), q0, f)

-----------------------------------------------------------------------------
(* The component *)

Op(name) == [ op |-> name, id |-> 0, field |-> "", value |-> "" ]

\* selected = null: no patient is open in the modal
Null == [ id |-> 0 ]

\* the view state the initialisers give: empty search, filter "all", no modal
FirstView ==
    /\ query = << >>
    /\ filter = "all"
    /\ selected = Null

\* the patients a user edits, and the values typed or picked
EditIds == { FirstId, FirstId + 3 }
EditValues == [ notes |-> { "n1" }, ward |-> { "ICU" } ]

\* the auto-update effect body when autoPlay is on: the immediate tick, then
\* setInterval; the persist effect follows the re-render
StartAutoUpdate(s, scheduled) ==
    /\ patients' = TickUpdate(patients, s, clock + 1)
    /\ lastDelta' = TickDeltas(patients, s)
    /\ clock' = clock + 1
    /\ timerSeq' = timerSeq + 1
    /\ updateRef' = timerSeq + 1
    /\ timers' = scheduled \cup { timerSeq + 1 }
    /\ storage' = StringifyMeta(patients')

\* the effects of the first render: autoPlay starts true
MountEffects ==
    /\ phase = "init"
    /\ \E s \in TickStreams : StartAutoUpdate(s, timers)
    /\ phase' = "live"
    /\ lastOp' = Op("mount")
    /\ UNCHANGED <<autoPlay, stepsLeft, view>>

\* the interval callback; it also runs while the page is being replaced
TimerTick ==
    /\ phase \in { "live", "reloading", "resetting" }
    /\ timers # {}
    /\ stepsLeft > 0
    /\ \E s \in TickStreams :
          /\ patients' = TickUpdate(patients, s, clock + 1)
          /\ lastDelta' = TickDeltas(patients, s)
    /\ clock' = clock + 1
    /\ storage' = StringifyMeta(patients')
    /\ stepsLeft' = stepsLeft - 1
    /\ lastOp' = Op("timer")
    /\ UNCHANGED <<autoPlay, updateRef, timers, timerSeq, phase, view>>

\* faulty variant: the interval is never cancelled
clearIntervalIgnored(scheduled, handle) == scheduled

\* clearInterval(handle): the handle is no longer scheduled; null clears nothing
clearInterval(scheduled, handle) == scheduled \ { handle }

\* the bell button: setAutoPlay(s => !s); the re-render runs the cleanup of the
\* effect's last run (the run with autoPlay on returned one), then its body
ToggleAutoPlay ==
    /\ phase = "live"
    /\ stepsLeft > 0
    /\ autoPlay' = ~autoPlay
    /\ LET cleaned == IF autoPlay THEN clearInterval(timers, updateRef) ELSE timers
       IN IF autoPlay
          THEN \* body with autoPlay off: clear the handle if set, set it to null
               /\ timers' = IF updateRef # 0 THEN clearInterval(cleaned, updateRef) ELSE cleaned
               /\ updateRef' = 0
               /\ lastDelta' = NoDeltas
               /\ UNCHANGED <<patients, storage, clock, timerSeq>>
          ELSE \E s \in TickStreams : StartAutoUpdate(s, cleaned)
    /\ stepsLeft' = stepsLeft - 1
    /\ lastOp' = Op("toggle")
    /\ UNCHANGED <<phase, view>>

\* faulty variant: the patch is applied to every patient
updateMetaAll(prev, id, field, v) ==
    [ j \in 1 .. Len(prev) |-> [ prev[j] EXCEPT ![field] = v ] ]

\* updateMeta(id, patch) with patch {notes: v} or {ward: v}, then the persist effect
updateMeta(prev, id, field, v) ==
    [ j \in 1 .. Len(prev) |->
        IF prev[j].id = id THEN [ prev[j] EXCEPT ![field] = v ] ELSE prev[j] ]

UpdateMeta ==
    /\ phase = "live"
    /\ stepsLeft > 0
    /\ \E id \in EditIds, field \in DOMAIN EditValues :
          \E v \in EditValues[field] :
             /\ patients' = updateMeta(patients, id, field, v)
             /\ lastOp' = [ op |-> "edit", id |-> id, field |-> field, value |-> v ]
    /\ storage' = StringifyMeta(patients')
    /\ stepsLeft' = stepsLeft - 1
    /\ lastDelta' = NoDeltas
    /\ UNCHANGED <<autoPlay, updateRef, timers, timerSeq, phase, clock, view>>

\* Reset demo: localStorage.clear(); window.location.reload().  reload() returns
\* at once and the page keeps running until the new document replaces it
ResetDemo ==
    /\ phase = "live"
    /\ stepsLeft > 0
    /\ storage' = Absent
    /\ phase' = "resetting"
    /\ stepsLeft' = stepsLeft - 1
    /\ lastOp' = Op("reset")
    /\ lastDelta' = NoDeltas
    /\ UNCHANGED <<patients, autoPlay, updateRef, timers, timerSeq, clock, view>>

\* the user reloads the page: a new session over the stored record
Reload ==
    /\ phase = "live"
    /\ stepsLeft > 0
    /\ phase' = "reloading"
    /\ stepsLeft' = stepsLeft - 1
    /\ lastOp' = Op("reload")
    /\ lastDelta' = NoDeltas
    /\ UNCHANGED <<patients, storage, autoPlay, updateRef, timers, timerSeq, clock, view>>

\* the new document: the component's state initialisers run, the old page's
\* timers are gone
PageLoad ==
    /\ phase \in { "reloading", "resetting" }
    /\ \E s \in SeedStreams : patients' = Hydrate(makeInitialPatients(s), storage)
    /\ autoPlay' = TRUE
    /\ updateRef' = 0
    /\ timers' = {}
    /\ timerSeq' = 0
    /\ phase' = "init"
    /\ lastOp' = Op(IF phase = "reloading" THEN "loaded" ELSE "regenerated")
    /\ lastDelta' = NoDeltas
    /\ query' = << >>
    /\ filter' = "all"
    /\ selected' = Null
    /\ UNCHANGED <<storage, clock, stepsLeft>>

-----------------------------------------------------------------------------
(* The list view and the modal *)

\* the search texts typed: white space only, a ward in mixed case, part of an id
\* in upper case followed by a space, a note in upper case, part of a name
Queries ==
    { << " ", " " >>,
      << "I", "c", "u" >>,
      << "T", "-", "1", "0", "0", "3", " " >>,
      << "N", "1" >>,
      << "t", " ", "1" >> }

\* the search input: setQuery(e.target.value)
SetQuery ==
    /\ phase = "live"
    /\ stepsLeft > 0
    /\ \E q \in Queries : query' = q
    /\ stepsLeft' = stepsLeft - 1
    /\ lastOp' = Op("query")
    /\ lastDelta' = NoDeltas
    /\ UNCHANGED <<patients, storage, autoPlay, updateRef, timers, timerSeq, phase,
                   clock, filter, selected>>

\* a filter button: setFilter(f)
SetFilter ==
    /\ phase = "live"
    /\ stepsLeft > 0
    /\ \E f \in Filters : filter' = f
    /\ stepsLeft' = stepsLeft - 1
    /\ lastOp' = Op("filter")
    /\ lastDelta' = NoDeltas
    /\ UNCHANGED <<patients, storage, autoPlay, updateRef, timers, timerSeq, phase,
                   clock, query, selected>>

\* the Dashboard button: setFilter("all"); setQuery("")
ShowDashboard ==
    /\ phase = "live"
    /\ stepsLeft > 0
    /\ filter' = "all"
    /\ query' = << >>
    /\ stepsLeft' = stepsLeft - 1
    /\ lastOp' = Op("dashboard")
    /\ lastDelta' = NoDeltas
    /\ UNCHANGED <<patients, storage, autoPlay, updateRef, timers, timerSeq, phase,
                   clock, selected>>

\* the View button of a displayed row: setSelected(p), p the row's patient object
ViewPatient ==
    /\ phase = "live"
    /\ stepsLeft > 0
    /\ LET rows == filtered(patients, query, filter)
       IN \E k \in 1 .. Len(rows) :
             /\ rows[k].id \in EditIds
             /\ selected' = rows[k]
             /\ lastOp' = [ Op("view") EXCEPT !.id = rows[k].id ]
    /\ stepsLeft' = stepsLeft - 1
    /\ lastDelta' = NoDeltas
    /\ UNCHANGED <<patients, storage, autoPlay, updateRef, timers, timerSeq, phase,
                   clock, query, filter>>

\* the modal's backdrop or Close button: setSelected(null)
CloseModal ==
    /\ phase = "live"
    /\ stepsLeft > 0
    /\ selected # Null
    /\ selected' = Null
    /\ stepsLeft' = stepsLeft - 1
    /\ lastOp' = Op("close")
    /\ lastDelta' = NoDeltas
    /\ UNCHANGED <<patients, storage, autoPlay, updateRef, timers, timerSeq, phase,
                   clock, query, filter>>

\* the modal's notes field: updateMeta(selected.id, {notes: v}), then the persist
\* effect; selected itself is not set
ModalNotes ==
    /\ phase = "live"
    /\ stepsLeft > 0
    /\ selected # Null
    /\ \E v \in EditValues.notes :
          /\ patients' = updateMeta(patients, selected.id, "notes", v)
          /\ lastOp' = [ op |-> "modal", id |-> selected.id, field |-> "notes", value |-> v ]
    /\ storage' = StringifyMeta(patients')
    /\ stepsLeft' = stepsLeft - 1
    /\ lastDelta' = NoDeltas
    /\ UNCHANGED <<autoPlay, updateRef, timers, timerSeq, phase, clock, view>>

-----------------------------------------------------------------------------
(* Initial states: a first visit (nothing stored) right after the first    *)
(* render, or the same session MaxWarmup ticks later, every tick of which  *)
(* drew from one stream of equal draws.                                    *)

WarmStreams == { w \in TickStreams : w.step = 0 }

RECURSIVE Warm(_, _, _)
Warm(s, w, k) ==
    IF k = 0 THEN Hydrate(makeInitialPatients(s), Absent)
    ELSE TickUpdate(Warm(s, w, k - 1), w, k)

Fresh(s) ==
    /\ patients = Hydrate(makeInitialPatients(s), Absent)
    /\ storage = Absent
    /\ autoPlay = TRUE
    /\ updateRef = 0
    /\ timers = {}
    /\ timerSeq = 0
    /\ phase = "init"
    /\ clock = 0
    /\ lastOp = Op("loaded")
    /\ lastDelta = NoDeltas
    /\ FirstView

Running(s, w, k) ==
    /\ patients = Warm(s, w, k)
    /\ storage = StringifyMeta(patients)
    /\ autoPlay = TRUE
    /\ updateRef = 1
    /\ timers = { 1 }
    /\ timerSeq = 1
    /\ phase = "live"
    /\ clock = k
    /\ lastOp = Op("timer")
    /\ lastDelta = TickDeltas(Warm(s, w, k - 1), w)
    /\ FirstView

Init ==
    /\ stepsLeft = MaxSteps
    /\ \E s \in SeedStreams :
          \/ Fresh(s)
          \/ \E w \in WarmStreams : Running(s, w, MaxWarmup)

Next ==
    \/ MountEffects
    \/ TimerTick
    \/ ToggleAutoPlay
    \/ UpdateMeta
    \/ ResetDemo
    \/ Reload
    \/ PageLoad

Spec == Init /\ [][Next]_vars

\* The whole page: the operations above and the events of the list view and of
\* the modal.  Those events leave patients, storage and the timers alone but for
\* ModalNotes, which is updateMeta on the open patient, so Spec leaves them out
\* and SpecPortal runs them over a shorter budget of steps.
NextPortal ==
    \/ Next
    \/ SetQuery
    \/ SetFilter
    \/ ShowDashboard
    \/ ViewPatient
    \/ CloseModal
    \/ ModalNotes

InitPortal ==
    /\ stepsLeft = MaxPortalSteps
    /\ \E s \in SeedStreams :
          \/ Fresh(s)
          \/ \E w \in WarmStreams : Running(s, w, MaxWarmup)

SpecPortal == InitPortal /\ [][NextPortal]_vars

\* Stored texts this page did not write: unparseable text, JSON null, a JSON
\* scalar, an object of the expected shape, and objects whose members are not
\* {notes, ward} (a member that is no object; members naming other patient fields)
StoredValues ==
    { Absent,
      [ kind |-> "garbage", entries |-> << >> ],
      [ kind |-> "null", entries |-> << >> ],
      [ kind |-> "scalar", entries |-> << >> ],
      [ kind |-> "object",
        entries |-> << [ key |-> FirstId, val |-> [ notes |-> "n1", ward |-> "ICU" ] ] >> ],
      [ kind |-> "object", entries |-> << [ key |-> FirstId + 1, val |-> NoFields ] >> ],
      [ kind |-> "object",
        entries |-> << [ key |-> FirstId + 2, val |-> [ id |-> FirstId + NumPatients ] ],
                       [ key |-> FirstId + 3,
                         val |-> [ vitals |-> [ time |-> 0, spo2 |-> 50 * Q, hr |-> 0, bp |-> 0 ] ] ]
                    >> ] }

\* a first render over any stored text
InitStored ==
    /\ stepsLeft = MaxSteps
    /\ \E s \in SeedStreams, text \in StoredValues :
          /\ patients = Hydrate(makeInitialPatients(s), text)
          /\ storage = text
    /\ autoPlay = TRUE
    /\ updateRef = 0
    /\ timers = {}
    /\ timerSeq = 0
    /\ phase = "init"
    /\ clock = 0
    /\ lastOp = Op("loaded")
    /\ lastDelta = NoDeltas
    /\ FirstView

SpecStored == InitStored /\ [][Next]_vars

-----------------------------------------------------------------------------
(* Vocabulary of the properties *)

\* the last operation was a tick: the immediate one of a mount or of switching
\* auto-update on, or a periodic one
Ticked == lastOp.op \in { "mount", "timer" } \/ (lastOp.op = "toggle" /\ autoPlay)

Positions == 1 .. Len(patients)

Level(p) == severityScore(p.vitals.spo2)

\* the reading before the current one
Previous(p) == p.history[Len(p.history) - 1]

InRange(r) ==
    /\ r.spo2 >= Spo2Min * Q /\ r.spo2 <= Spo2Max * Q
    /\ r.hr >= HrMin /\ r.hr <= HrMax
    /\ r.bp >= BpMin /\ r.bp <= BpMax

-----------------------------------------------------------------------------
\* C1: after every tick the collection is ordered by descending severity level
\* of the current oxygen saturation, equal levels by ascending identifier
SortedAfterTick ==
    Ticked =>
        \A j \in Positions : j < Len(patients) =>
            /\ Level(patients[j]) >= Level(patients[j + 1])
            /\ Level(patients[j]) = Level(patients[j + 1]) => patients[j].id <= patients[j + 1].id

\* a tick has left a more severe patient with a higher identifier in front of a
\* less severe one, and two patients of one level side by side
SortedAfterTickWitness ==
    /\ Ticked
    /\ \E j \in Positions : /\ j < Len(patients)
                            /\ Level(patients[j]) > Level(patients[j + 1])
                            /\ patients[j].id > patients[j + 1].id
    /\ \E j \in Positions : /\ j < Len(patients)
                            /\ Level(patients[j]) = Level(patients[j + 1])

\* C2: every current reading and every reading of every history has oxygen
\* saturation in [60,100], heart rate in [45,140] and blood pressure in [80,200]
VitalsInRange ==
    \A j \in Positions :
        /\ InRange(patients[j].vitals)
        /\ \A x \in 1 .. Len(patients[j].history) : InRange(patients[j].history[x])

\* a periodic tick of the run drew a decrease for a patient already at the floor
\* of all three vitals
VitalsInRangeWitness ==
    /\ lastOp.op = "timer"
    /\ stepsLeft < MaxSteps
    /\ \E j \in Positions :
          LET p == patients[j]
          IN /\ lastDelta[p.id] < 0
             /\ Previous(p).spo2 = Spo2Min * Q /\ p.vitals.spo2 = Spo2Min * Q
             /\ Previous(p).hr = HrMin /\ p.vitals.hr = HrMin
             /\ Previous(p).bp = BpMin /\ p.vitals.bp = BpMin

\* C3: a history starts at 8 readings and never holds more than 16; a tick
\* appends the new reading at the end and, past 16, drops from the front: the
\* new history is the last 16 of the previous history followed by the new reading
HistoryBounded ==
    /\ [](\A j \in Positions :
             /\ Len(patients[j].history) <= HistoryCap
             /\ phase = "init" => Len(patients[j].history) = SeedLen)
    /\ [][clock' = clock + 1 =>
            \A j \in Positions : \A k \in 1 .. Len(patients') :
                patients'[k].id = patients[j].id =>
                    LET old == patients[j].history
                        new == patients'[k].history
                        dropped == Len(old) + 1 - Len(new)
                    IN /\ Len(new) = Min(Len(old) + 1, HistoryCap)
                       /\ new[Len(new)] = patients'[k].vitals
                       /\ new[Len(new)].time = clock'
                       /\ \A x \in 1 .. Len(new) - 1 : new[x] = old[x + dropped]]_vars

\* a tick found a full history and dropped its oldest reading: 16 readings, all
\* made by ticks, the oldest 15 ticks before the newest
HistoryBoundedWitness ==
    /\ Ticked
    /\ lastOp.op = "timer"
    /\ stepsLeft < MaxSteps
    /\ \E j \in Positions :
          LET h == patients[j].history
          IN /\ Len(h) = HistoryCap
             /\ h[1].time = clock - (HistoryCap - 1)
             /\ h[1].time > 0
             /\ h[HistoryCap].time = clock

\* C4: in every state each patient's vitals is the last element of its history
VitalsIsLastOfHistory ==
    \A j \in Positions :
        /\ Len(patients[j].history) > 0
        /\ patients[j].vitals = patients[j].history[Len(patients[j].history)]

\* a session hydrated from the stored record, ticked and then edited: a patient
\* carries the reloaded note, another the ward just picked, and the last reading
\* is the tick's
VitalsIsLastOfHistoryWitness ==
    /\ lastOp.op = "edit" /\ lastOp.field = "ward" /\ lastOp.value = "ICU"
    /\ \E j \in Positions : patients[j].notes = "n1" /\ patients[j].id # lastOp.id
    /\ \E j \in Positions : patients[j].id = lastOp.id /\ patients[j].ward = "ICU"
    /\ \A j \in Positions : patients[j].vitals.time = clock /\ Len(patients[j].history) = SeedLen + 1

\* C5: the severity level is one of 0..3, fixed by the oxygen saturation s (in
\* percent): 0 from 95 up, 1 from 90 to 94, 2 from 85 to 89, 3 below 85; it never
\* rises when s rises.  Checked on every reading held and on the named boundaries
SeverityTable(s, v) ==
    /\ v \in 0 .. 3
    /\ s >= 95 * Q => v = 0
    /\ (s >= 90 * Q /\ s <= 94 * Q) => v = 1
    /\ (s >= 85 * Q /\ s <= 89 * Q) => v = 2
    /\ s < 85 * Q => v = 3

HeldSpo2 ==
    UNION { { patients[j].history[x].spo2 : x \in 1 .. Len(patients[j].history) } : j \in Positions }

SeverityClassified ==
    /\ \A s \in HeldSpo2 :
          /\ SeverityTable(s, severityScore(s))
          /\ severityScore(s + 1) <= severityScore(s)
    /\ \A j, k \in Positions :
          patients[j].vitals.spo2 <= patients[k].vitals.spo2 => Level(patients[j]) >= Level(patients[k])
    /\ severityScore(95 * Q) = 0 /\ severityScore(94 * Q) = 1
    /\ severityScore(90 * Q) = 1 /\ severityScore(89 * Q) = 2
    /\ severityScore(85 * Q) = 2 /\ severityScore(84 * Q) = 3

\* after a tick the readings held include all six named boundary values, and
\* the collection holds patients of different levels
SeverityClassifiedWitness ==
    /\ Ticked
    /\ { 95 * Q, 94 * Q, 90 * Q, 89 * Q, 85 * Q, 84 * Q } \subseteq HeldSpo2
    /\ \E j, k \in Positions : Level(patients[j]) # Level(patients[k])

\* C6: never more than one interval is scheduled, and none while auto-update is
\* off, so no tick occurs then; switching off cancels the scheduled interval
\* and ticks nothing; switching on ticks exactly once and schedules exactly one
\* new interval; a cancelled handle is never scheduled again
ToggleKeepsOneTimer ==
    /\ [](/\ Cardinality(timers) <= 1
          /\ ~autoPlay => timers = {}
          /\ \A h \in timers : h = updateRef)
    /\ [][/\ (~autoPlay /\ ~autoPlay') =>
                /\ clock' = clock
                /\ Len(patients') = Len(patients)
                /\ \A j \in Positions : patients'[j].history = patients[j].history
          /\ (lastOp'.op = "toggle" /\ ~autoPlay') =>
                (timers' = {} /\ clock' = clock /\ patients' = patients)
          /\ (lastOp'.op = "toggle" /\ autoPlay') =>
                /\ clock' = clock + 1
                /\ \A j \in Positions : \E k \in 1 .. Len(patients') :
                      /\ patients'[k].id = patients[j].id
                      /\ Len(patients'[k].history) = Min(Len(patients[j].history) + 1, HistoryCap)
                /\ Cardinality(timers') = 1
                /\ \A h \in timers' : h > timerSeq]_vars

\* auto-update was switched off and on again: the second interval of the page
\* is the only one scheduled
ToggleKeepsOneTimerWitness ==
    /\ lastOp.op = "toggle"
    /\ autoPlay
    /\ timerSeq = 2
    /\ timers = { 2 }

\* the stored text read member by member: the member of key id has value val
StoredMember(text, id, val) ==
    /\ text.kind = "object"
    /\ Cardinality({ x \in 1 .. Len(text.entries) : text.entries[x].key = id }) = 1
    /\ \E x \in 1 .. Len(text.entries) : text.entries[x].key = id /\ text.entries[x].val = val

\* C7: after an edit of notes or ward the record stored maps the patient's
\* identifier to exactly the edited {notes, ward}; a session started from the
\* stored record has, for every identifier, the notes and ward of the session
\* before
MetaRoundTrip ==
    [][/\ lastOp'.op = "edit" =>
             \E k \in 1 .. Len(patients') :
                /\ patients'[k].id = lastOp'.id
                /\ patients'[k][lastOp'.field] = lastOp'.value
                /\ StoredMember(storage', lastOp'.id,
                                [ notes |-> patients'[k].notes, ward |-> patients'[k].ward ])
       /\ lastOp'.op = "loaded" =>
             \A j \in Positions : \E k \in 1 .. Len(patients') :
                /\ patients'[k].id = patients[j].id
                /\ patients'[k].notes = patients[j].notes
                /\ patients'[k].ward = patients[j].ward]_vars

\* a session started from the stored record carries a note typed before the reload
MetaRoundTripWitness ==
    /\ lastOp.op = "loaded"
    /\ phase = "init"
    /\ \E j \in Positions : patients[j].notes = "n1"

\* C8: whatever text is stored at startup, the first render holds the 10 seed
\* patients, and only notes and ward may differ from what seed generation made
StartupKeepsSeed ==
    phase = "init" =>
        \E s \in SeedStreams :
            /\ Len(patients) = NumPatients
            /\ \A k \in Positions :
                  [ patients[k] EXCEPT !.notes = "", !.ward = "General" ] = makeInitialPatients(s)[k]

\* C9: after a full reset the stored record is cleared and the collection is
\* the seed set: 10 patients PT-1000..PT-1009 with empty notes, ward General
\* and 8 readings
FullResetRegenerates ==
    lastOp.op = "regenerated" =>
        /\ storage = Absent
        /\ Len(patients) = NumPatients
        /\ \A k \in Positions :
              /\ patients[k].id = FirstId + (k - 1)
              /\ patients[k].notes = ""
              /\ patients[k].ward = "General"
              /\ Len(patients[k].history) = SeedLen

\* the case of C10: the last tick drew delta -3 for PT-1000, whose oxygen was 95
Dropped95(p) ==
    /\ Ticked
    /\ p.id = FirstId
    /\ lastDelta[p.id] = -3
    /\ Len(p.history) >= 2
    /\ Previous(p).spo2 = 95 * Q

\* C10 as stated: the new oxygen is 92 and the level 1, and the patient stands
\* after every level-0 patient and before every level-2 or level-3 patient
Dropped95BelowStable ==
    \A j \in Positions :
        Dropped95(patients[j]) =>
            /\ patients[j].vitals.spo2 = 92 * Q
            /\ Level(patients[j]) = 1
            /\ \A k \in Positions :
                  /\ Level(patients[k]) = 0 => k < j
                  /\ Level(patients[k]) >= 2 => k > j

\* C10 amended: the new oxygen is 92 and the level 1, and the patient stands
\* before every level-0 patient and after every level-2 or level-3 patient
Dropped95AboveStable ==
    \A j \in Positions :
        Dropped95(patients[j]) =>
            /\ patients[j].vitals.spo2 = 92 * Q
            /\ Level(patients[j]) = 1
            /\ \A k \in Positions :
                  /\ Level(patients[k]) = 0 => k > j
                  /\ Level(patients[k]) >= 2 => k < j

\* PT-1000 dropped from 95 to 92 while a level-0 patient remained and a
\* level-2 or level-3 patient was present
Dropped95AboveStableWitness ==
    \E j \in Positions :
        /\ Dropped95(patients[j])
        /\ \E k \in Positions : Level(patients[k]) = 0
        /\ \E k \in Positions : Level(patients[k]) >= 2

-----------------------------------------------------------------------------
(* C11 *)

\* the collection the list shows
Displayed == filtered(patients, query, filter)

\* one of the four searched fields of p contains text q, whatever the case
ContainsText(p, q) ==
    \E t \in { NameText(p.name), IdText(p.id), Chars(p.ward), Chars(p.notes) } :
       includes(toLowerCase(t), toLowerCase(q))

\* for each position, whether its patient is of the asked level and contains text q
Wanted(q) ==
    [ j \in Positions |->
        /\ filter = "all" \/ Level(patients[j]) = FilterLevel[filter]
        /\ ContainsText(patients[j], q) ]

\* d holds the wanted patients and no other, in the order of the collection:
\* the n-th wanted patient of the collection is the n-th element of d
IsSelection(d, want) ==
    LET Rank(j) == Cardinality({ i \in 1 .. j : want[i] })
    IN /\ Len(d) = Rank(Len(patients))
       /\ \A j \in Positions : want[j] => d[Rank(j)] = patients[j]

\* C11 as stated: the displayed collection holds, in the order of the patient
\* collection, exactly the patients of the asked level (any level for "all")
\* one of whose name, id, ward and notes contains the search text as typed,
\* whatever the case; with "all" and no search text it is the whole collection.
DisplayedContainsTyped ==
    /\ IsSelection(Displayed, Wanted(query))
    /\ (filter = "all" /\ query = << >>) => Displayed = patients

\* C11 (amended): the displayed collection holds, in the order of the patient
\* collection, exactly the patients of the asked level (any level for "all")
\* one of whose name, id, ward and notes contains the search text without the
\* white space at its two ends, whatever the case; with "all" and no search
\* text it is the whole collection.
DisplayedContainsTrimmed ==
    /\ IsSelection(Displayed, Wanted(trim(query)))
    /\ (filter = "all" /\ query = << >>) => Displayed = patients

\* a search text ending in a space and a level are asked; one patient is shown,
\* a patient of the same level is left out for its text and the collection
\* also holds patients of other levels
DisplayedContainsTrimmedWitness ==
    /\ lastOp.op \in { "query", "filter" }
    /\ query # trim(query)
    /\ trim(query) # << >>
    /\ filter # "all"
    /\ Len(Displayed) = 1
    /\ \E j \in Positions :
          /\ Level(patients[j]) = FilterLevel[filter]
          /\ patients[j] # Displayed[1]
    /\ \E j \in Positions : Level(patients[j]) # FilterLevel[filter]

-----------------------------------------------------------------------------
(* C12 *)

\* the ten seeded identifiers, each held by one patient
SeededIds == { FirstId + i : i \in 0 .. NumPatients - 1 }

IdsAreSeeded ==
    /\ Len(patients) = NumPatients
    /\ { patients[j].id : j \in Positions } = SeededIds

\* the step is a tick
TickStep == clock' = clock + 1

\* the step is a notes/ward edit, from a row or from the modal
EditStep == lastOp'.op \in { "edit", "modal" } /\ stepsLeft' = stepsLeft - 1

\* C12: the identifiers are the ten seeded ones at all times; a tick keeps the
\* id, ward and notes of every patient; a notes/ward edit sets the named field of
\* the patient of the given id and keeps every other field of it, every other
\* patient (readings and history included) and the order of the collection.
IdsAndMetaFramed ==
    /\ [](IdsAreSeeded)
    /\ [][ /\ TickStep =>
                \A j \in Positions :
                   \E k \in 1 .. Len(patients') :
                      /\ patients'[k].id = patients[j].id
                      /\ patients'[k].ward = patients[j].ward
                      /\ patients'[k].notes = patients[j].notes
           /\ EditStep =>
                /\ Len(patients') = Len(patients)
                /\ \A j \in Positions :
                      /\ DOMAIN patients'[j] = DOMAIN patients[j]
                      /\ \A f \in DOMAIN patients[j] :
                            patients'[j][f] =
                               IF patients[j].id = lastOp'.id /\ f = lastOp'.field
                               THEN lastOp'.value
                               ELSE patients[j][f] ]_vars

\* a ward was picked, as the second event of the run, for a patient that is not
\* the first of the collection: it alone is in that ward, and the readings vary
IdsAndMetaFramedWitness ==
    /\ lastOp.op = "edit"
    /\ lastOp.field = "ward"
    /\ stepsLeft <= MaxPortalSteps - 2
    /\ clock > 0
    /\ patients[1].id # lastOp.id
    /\ \A j \in Positions : (patients[j].ward = lastOp.value) <=> (patients[j].id = lastOp.id)
    /\ \E j \in Positions : patients[j].vitals # patients[1].vitals

-----------------------------------------------------------------------------
(* C13 *)

\* C13: while a patient is open in the modal, the reading, history, notes and
\* ward the modal holds are those of the patient of the same id in the
\* collection.
SelectedIsCurrent ==
    selected # Null =>
       \E j \in Positions :
          /\ patients[j].id = selected.id
          /\ patients[j].vitals = selected.vitals
          /\ patients[j].history = selected.history
          /\ patients[j].notes = selected.notes
          /\ patients[j].ward = selected.ward

====
